---- MODULE Spec2Model ----
(***************************************************************************)
(* Model of the middleware security pipeline of the chat backend:          *)
(* core/anti_replay.py, core/rate_limit.py, core/csrf.py, core/sessions.py *)
(* and their composition in app.py.                                        *)
(*                                                                         *)
(* Text (header and cookie values) is a sequence of character codes, as    *)
(* the framework hands it to the code (latin-1 decoded), so that empty     *)
(* values, integer parsing and the ASCII-only comparison are modelled by   *)
(* what they do.  An optional value is <<>> (None) or <<text>>.            *)
(*                                                                         *)
(* Time is counted in ticks of 1/TicksPerSec second; time.time() is the    *)
(* tick counter and int(time.time()) its whole seconds.  The configured    *)
(* rate is a multiple of 1/RpsDenominator token per second and token       *)
(* counts are kept in units of 1/(RpsDenominator * TicksPerSec) token,     *)
(* which makes elapsed * rate exact.                                       *)
(***************************************************************************)
EXTENDS Integers, Sequences, FiniteSets, TLC

VARIABLES
    clock,              \* time.time(), in ticks
    NONCES,             \* anti_replay.NONCES: nonce text -> expiry (seconds)
    RATE_LIMIT_RPS,     \* rate_limit.RATE_LIMIT_RPS, in 1/RpsDenominator token/s
    RATE_LIMIT_STATE,   \* rate_limit._RATE_LIMIT_STATE: client -> [tokens, ts]
    csrfCall,           \* one call of require_csrf: its arguments and outcome
    arCall,             \* the latest call of AntiReplayMiddleware.dispatch
    admitAt,            \* history: nonce text -> second of its latest admission
    rlLog,              \* history: client -> the limiter's decisions, in order
    SESSIONS,           \* sessions.SESSIONS: sid text -> session record
    issued,             \* number of identifiers _generate_sid has returned
    req,                \* the requests of the pipeline: position and history
    firstSeen,          \* history: client -> time of its first limiter call
    sessCall,           \* the latest call into the session store
    GC_TASK,            \* sessions._GC_TASK: None or the task it refers to
    gcTasks,            \* the reaper tasks created so far, in order
    stopGc              \* position of the shutdown handler _stop_gc

vars == <<clock, NONCES, RATE_LIMIT_RPS, RATE_LIMIT_STATE, csrfCall, arCall, admitAt, rlLog,
          SESSIONS, issued, req, firstSeen, sessCall, GC_TASK, gcTasks, stopGc>>

\* the request pipeline's own state, untouched when a guard is driven alone
pipeline == <<SESSIONS, issued, req, firstSeen>>

\* the reaper task, its lifecycle and the record of direct store calls
reaper == <<sessCall, GC_TASK, gcTasks, stopGc>>

----------------------------------------------------------------------------
(* Bounds of the model *)

TicksPerSec == 1
RpsDenominator == 2
StartClock == 10
Horizon == 3
MaxLog == 5
MaxRequests == 2
MaxSids == 2
MaxTasks == 2
MaxClock == StartClock + Horizon

(* Program constants (environment-configurable; small values here) *)

FRESHNESS_WINDOW == 2
SESSION_TTL == 1
SESSION_GC_INTERVAL == 1

----------------------------------------------------------------------------
(* Generic helpers *)

Max(a, b) == IF a >= b THEN a ELSE b
Min(a, b) == IF a <= b THEN a ELSE b
Abs(a) == IF a < 0 THEN 0 - a ELSE a

None == <<>>
Some(v) == <<v>>
\* Python truthiness of an Optional[str]: None and "" are falsy
Truthy(opt) == opt # None /\ opt[1] # <<>>

\* dict[key] = value
Put(d, key, value) == [k \in DOMAIN d \cup {key} |-> IF k = key THEN value ELSE d[k]]
\* dict without the keys in ks
Drop(d, ks) == [k \in DOMAIN d \ ks |-> d[k]]
EmptyDict == [k \in {} |-> 0]

----------------------------------------------------------------------------
(* HTTP methods *)

MUTATING_METHODS == {"POST", "PUT", "PATCH", "DELETE"}
Methods == {"GET", "HEAD", "OPTIONS"} \cup MUTATING_METHODS

----------------------------------------------------------------------------
(* core/csrf.py *)

IsAscii(s) == \A i \in 1..Len(s) : s[i] < 128

\* secrets.compare_digest on two str: TypeError unless both are ASCII
CompareDigestRaises(a, b) == ~(IsAscii(a) /\ IsAscii(b))
CompareDigest(a, b) == a = b

\* require_csrf: status 0 is a normal return (the request goes on),
\* 403 an HTTPException, 500 an exception escaping the dependency.
RequireCsrf_AcceptEmpty(method, cookie, header) ==
    IF method \notin MUTATING_METHODS THEN [status |-> 0, reason |-> "exempt"]
    ELSE IF cookie = None \/ header = None
         THEN [status |-> 403, reason |-> "missing"]
    ELSE IF CompareDigestRaises(cookie[1], header[1])
         THEN [status |-> 500, reason |-> "TypeError"]
    ELSE IF ~CompareDigest(cookie[1], header[1])
         THEN [status |-> 403, reason |-> "mismatch"]
    ELSE [status |-> 0, reason |-> "ok"]

RequireCsrf(method, cookie, header) ==
    IF method \notin MUTATING_METHODS THEN [status |-> 0, reason |-> "exempt"]
    ELSE IF ~Truthy(cookie) \/ ~Truthy(header)
         THEN [status |-> 403, reason |-> "missing"]
    ELSE IF CompareDigestRaises(cookie[1], header[1])
         THEN [status |-> 500, reason |-> "TypeError"]
    ELSE IF ~CompareDigest(cookie[1], header[1])
         THEN [status |-> 403, reason |-> "mismatch"]
    ELSE [status |-> 0, reason |-> "ok"]

\* the detail of the HTTPException require_csrf raises next to each log reason
CsrfDetail(reason) ==
    IF reason = "missing" THEN "CSRF token missing"
    ELSE IF reason = "mismatch" THEN "CSRF token mismatch"
    ELSE ""

\* Token texts a client may send: "", "a", "b", "ab", and "\xe9", "a\xe9"
TokenTexts == {<<>>, <<97>>, <<98>>, <<97, 98>>, <<233>>, <<97, 233>>}
TokenValues == {None} \cup {Some(t) : t \in TokenTexts}

NoCsrfCall == [pc |-> "idle", method |-> "GET", cookie |-> None, header |-> None,
               status |-> 0, reason |-> "", body |-> None]

----------------------------------------------------------------------------
(* core/anti_replay.py *)

Clients == {"c1", "c2"}

\* now = int(time.time())
NowSec == clock \div TicksPerSec

\* int(text): surrounding whitespace is stripped, then an optional sign, then
\* decimal digits, single underscores allowed between digits.
IsSpace(c) == c \in {9, 10, 11, 12, 13, 28, 29, 30, 31, 32, 133, 160}
IsDigit(c) == c >= 48 /\ c <= 57

RECURSIVE LStrip(_)
LStrip(s) == IF s # <<>> /\ IsSpace(Head(s)) THEN LStrip(Tail(s)) ELSE s

RECURSIVE RStrip(_)
RStrip(s) == IF s # <<>> /\ IsSpace(s[Len(s)])
             THEN RStrip(SubSeq(s, 1, Len(s) - 1)) ELSE s

Unsigned(s) ==
    LET t == RStrip(LStrip(s))
    IN IF t # <<>> /\ t[1] \in {43, 45} THEN Tail(t) ELSE t

IsNegative(s) ==
    LET t == RStrip(LStrip(s)) IN t # <<>> /\ t[1] = 45

RECURSIVE DigitsValue(_, _)
DigitsValue(s, acc) ==
    IF s = <<>> THEN acc
    ELSE IF Head(s) = 95 THEN DigitsValue(Tail(s), acc)
    ELSE DigitsValue(Tail(s), acc * 10 + (Head(s) - 48))

\* int(text) does not raise ValueError
PyIntOk(s) ==
    LET u == Unsigned(s)
    IN /\ u # <<>>
       /\ \A i \in 1..Len(u) : IsDigit(u[i]) \/ u[i] = 95
       /\ IsDigit(u[1]) /\ IsDigit(u[Len(u)])
       /\ \A i \in 1..(Len(u) - 1) : ~(u[i] = 95 /\ u[i + 1] = 95)

PyInt(s) ==
    LET v == DigitsValue(Unsigned(s), 0)
    IN IF IsNegative(s) THEN 0 - v ELSE v

\* abs(now - ts_value) > FRESHNESS_WINDOW
IsStale_Exclusive(now, ts_value) == Abs(now - ts_value) >= FRESHNESS_WINDOW
IsStale(now, ts_value) == Abs(now - ts_value) > FRESHNESS_WINDOW

\* the lazy purge: every record whose expiry is not after now is dropped
PurgeExpired_Early(nonces, now) ==
    Drop(nonces, {k \in DOMAIN nonces : nonces[k] <= now + 1})
PurgeExpired(nonces, now) ==
    Drop(nonces, {k \in DOMAIN nonces : nonces[k] <= now})

\* NONCES[nonce] = now + FRESHNESS_WINDOW
Remember_Forget(nonces, nonce, now) == nonces
Remember(nonces, nonce, now) == Put(nonces, nonce, now + FRESHNESS_WINDOW)

\* AntiReplayMiddleware.dispatch up to its return or its call_next:
\* status 0 stands for "return await call_next(request)".
AntiReplayDispatch(method, ts_header, nonce, now, nonces) ==
    IF method \notin MUTATING_METHODS
    THEN [status |-> 0, reason |-> "not_mutating", nonces |-> nonces]
    ELSE IF ~Truthy(ts_header) \/ ~Truthy(nonce)
    THEN [status |-> 401, reason |-> "missing_headers", nonces |-> nonces]
    ELSE IF ~PyIntOk(ts_header[1])
    THEN [status |-> 401, reason |-> "invalid_ts", nonces |-> nonces]
    ELSE IF IsStale(now, PyInt(ts_header[1]))
    THEN [status |-> 401, reason |-> "stale_ts", nonces |-> nonces]
    ELSE LET purged == PurgeExpired(nonces, now)
         IN IF nonce[1] \in DOMAIN purged
            THEN [status |-> 401, reason |-> "nonce_reuse", nonces |-> purged]
            ELSE [status |-> 0, reason |-> "ok",
                  nonces |-> Remember(purged, nonce[1], now)]

(* What clients send as X-TS and X-Nonce *)

\* str(n) for n >= 0
RECURSIVE DecimalNat(_)
DecimalNat(n) ==
    IF n < 10 THEN <<48 + n>> ELSE DecimalNat(n \div 10) \o <<48 + (n % 10)>>

\* str(i), as tests/test_chat.py writes the header
Decimal(i) == IF i < 0 THEN <<45>> \o DecimalNat(0 - i) ELSE DecimalNat(i)

\* the seconds a timestamp may name: from before the window of the first
\* second to after the window of the last
TsSeconds ==
    ((StartClock \div TicksPerSec) - FRESHNESS_WINDOW - 1) ..
    ((MaxClock \div TicksPerSec) + FRESHNESS_WINDOW + 1)

\* other texts int() accepts for i: padded, signed and zero-filled, grouped
Decorated(i) ==
    IF i < 0 THEN {<<32>> \o Decimal(i)}
    ELSE {<<32>> \o Decimal(i) \o <<10>>, <<43, 48>> \o Decimal(i)}
         \cup (IF i >= 10 THEN {DecimalNat(i \div 10) \o <<95>> \o DecimalNat(i % 10)}
               ELSE {})

DecoratedSeconds == {StartClock \div TicksPerSec, 0 - 1}

\* texts int() rejects: "", "x", "1.5", "1__0", "1 0"
Malformed == {<<>>, <<120>>, <<49, 46, 53>>, <<49, 95, 95, 48>>, <<49, 32, 48>>}

TsTexts == {Decimal(i) : i \in TsSeconds}
           \cup UNION {Decorated(i) : i \in DecoratedSeconds}
           \cup Malformed
TsHeaders == {None} \cup {Some(t) : t \in TsTexts}

\* nonce texts: "", "a", "b"
NonceTexts == {<<>>, <<97>>, <<98>>}
NonceHeaders == {None} \cup {Some(t) : t \in NonceTexts}

NoArCall == [seq |-> 0, method |-> "GET", ts_header |-> None,
             nonce |-> None, status |-> 0, reason |-> ""]

----------------------------------------------------------------------------
(* core/rate_limit.py *)

\* RATE_LIMIT_BURST = RATE_LIMIT_RPS * 2, in token units
BurstUnits(rps) == rps * 2 * TicksPerSec

\* 1.0 token, in token units
OneToken == RpsDenominator * TicksPerSec

\* record = {"tokens": RATE_LIMIT_BURST, "ts": now}
FirstSeen_Empty(rps, now) == [tokens |-> 0, ts |-> now]
FirstSeen(rps, now) == [tokens |-> BurstUnits(rps), ts |-> now]

\* elapsed = max(0.0, now - record["ts"]);
\* tokens = min(RATE_LIMIT_BURST, tokens + elapsed * RATE_LIMIT_RPS); ts = now
Refill_Uncapped(rps, record, now) ==
    [tokens |-> record.tokens + Max(0, now - record.ts) * rps, ts |-> now]
Refill(rps, record, now) ==
    LET elapsed == Max(0, now - record.ts)
    IN [tokens |-> Min(BurstUnits(rps), record.tokens + elapsed * rps), ts |-> now]

\* RateLimitMiddleware.dispatch up to its return or its call_next:
\* status 0 stands for "return await call_next(request)".
RateLimitDispatch_ChargeRejected(rps, state, client_host, now) ==
    LET record == IF client_host \notin DOMAIN state THEN FirstSeen(rps, now)
                  ELSE Refill(rps, state[client_host], now)
        charged == [record EXCEPT !.tokens = @ - OneToken]
    IN [status |-> IF record.tokens < OneToken THEN 429 ELSE 0,
        state |-> Put(state, client_host, charged)]

RateLimitDispatch_Strict(rps, state, client_host, now) ==
    LET record == IF client_host \notin DOMAIN state THEN FirstSeen(rps, now)
                  ELSE Refill(rps, state[client_host], now)
    IN IF record.tokens <= OneToken
       THEN [status |-> 429, state |-> Put(state, client_host, record)]
       ELSE [status |-> 0,
             state |-> Put(state, client_host,
                           [record EXCEPT !.tokens = @ - OneToken])]

RateLimitDispatch(rps, state, client_host, now) ==
    IF rps <= 0 THEN [status |-> 0, state |-> state]
    ELSE
    LET record == IF client_host \notin DOMAIN state THEN FirstSeen(rps, now)
                  ELSE Refill(rps, state[client_host], now)
    IN IF record.tokens < OneToken
       THEN [status |-> 429, state |-> Put(state, client_host, record)]
       ELSE [status |-> 0,
             state |-> Put(state, client_host,
                           [record EXCEPT !.tokens = @ - OneToken])]

----------------------------------------------------------------------------
(* core/sessions.py *)

\* _generate_sid: secrets.token_urlsafe(32), a text never returned before;
\* the n-th one is written "s<n>"
GenerateSid(n) == <<115>> \o DecimalNat(n)

\* (now - session["last_seen"]) > SESSION_TTL
IsExpired(session, now) == (now - session.last_seen) > SESSION_TTL * TicksPerSec

\* _create_session: SESSIONS[sid] = {created_at: now, last_seen: now, user_id: None}
CreateSession(sessions, sid, now) ==
    Put(sessions, sid, [created_at |-> now, last_seen |-> now, user_id |-> None])

\* SessionMiddleware.dispatch up to its call_next
SessionDispatch_NoTouch(sid_cookie, now, sessions, fresh) ==
    IF Truthy(sid_cookie) /\ sid_cookie[1] \in DOMAIN sessions
    THEN [sid |-> sid_cookie[1], created |-> FALSE, sessions |-> sessions]
    ELSE [sid |-> fresh, created |-> TRUE,
          sessions |-> CreateSession(sessions, fresh, now)]

SessionDispatch_Adopt(sid_cookie, now, sessions, fresh) ==
    LET sid == IF Truthy(sid_cookie) THEN sid_cookie[1] ELSE fresh
    IN IF sid \in DOMAIN sessions /\ ~IsExpired(sessions[sid], now)
       THEN [sid |-> sid, created |-> FALSE,
             sessions |-> [sessions EXCEPT ![sid].last_seen = now]]
       ELSE [sid |-> sid, created |-> TRUE,
             sessions |-> CreateSession(sessions, sid, now)]

SessionDispatch(sid_cookie, now, sessions, fresh) ==
    LET known == Truthy(sid_cookie) /\ sid_cookie[1] \in DOMAIN sessions
        expired == known /\ IsExpired(sessions[sid_cookie[1]], now)
        kept == IF expired THEN Drop(sessions, {sid_cookie[1]}) ELSE sessions
    IN IF known /\ ~expired
       THEN [sid |-> sid_cookie[1], created |-> FALSE,
             sessions |-> [sessions EXCEPT ![sid_cookie[1]].last_seen = now]]
       ELSE [sid |-> fresh, created |-> TRUE,
             sessions |-> CreateSession(kept, fresh, now)]

\* dict.update: every key of other is set in record
Update(record, other) ==
    [k \in DOMAIN record \cup DOMAIN other |->
        IF k \in DOMAIN other THEN other[k] ELSE record[k]]

\* rotate_sid: existing = SESSIONS.pop(old_sid, None); a new session is
\* created; "if existing" it is updated with the old record, keeps the old
\* created_at and has last_seen set to the time of the call
RotateSid_KeepOld(sessions, old_sid, now, fresh) ==
    [sid |-> fresh, sessions |-> CreateSession(sessions, fresh, now)]
RotateSid(sessions, old_sid, now, fresh) ==
    LET existing == IF old_sid \in DOMAIN sessions THEN Some(sessions[old_sid])
                    ELSE None
        created == CreateSession(Drop(sessions, {old_sid}), fresh, now)
    IN [sid |-> fresh,
        sessions |->
            IF existing # None /\ DOMAIN existing[1] # {}
            THEN [created EXCEPT ![fresh] =
                     [Update(@, existing[1]) EXCEPT
                         !.created_at = existing[1].created_at,
                         !.last_seen = now]]
            ELSE created]

\* one pass of _gc_loop after its sleep: the expired records are listed and
\* popped
GcSweep_Stale(sessions, now) ==
    Drop(sessions, {sid \in DOMAIN sessions : now - sessions[sid].created_at
                                                  > SESSION_TTL * TicksPerSec})
GcSweep(sessions, now) ==
    Drop(sessions, {sid \in DOMAIN sessions : IsExpired(sessions[sid], now)})

\* an asyncio task running _gc_loop: created and not yet run, sleeping in
\* asyncio.sleep until wake, finished (the coroutine returned) or cancelled
\* (CancelledError left the coroutine); cancel_requested once cancel() was
\* called on it before it was done
GcTaskDone(task) == task.st \in {"finished", "cancelled"}
NewGcTask == [st |-> "created", cancel_requested |-> FALSE, wake |-> 0]

\* _start_gc: "if _GC_TASK is None: _GC_TASK = asyncio.create_task(_gc_loop())"
StartGcHandler_Always(gc_task, tasks) ==
    [gc_task |-> Some(Len(tasks) + 1), tasks |-> Append(tasks, NewGcTask)]
StartGcHandler(gc_task, tasks) ==
    IF gc_task = None
    THEN [gc_task |-> Some(Len(tasks) + 1), tasks |-> Append(tasks, NewGcTask)]
    ELSE [gc_task |-> gc_task, tasks |-> tasks]

\* Task.cancel(): no effect on a task that is done
CancelTask(task) ==
    IF GcTaskDone(task) THEN task ELSE [task EXCEPT !.cancel_requested = TRUE]

\* the first turn of a task: a cancellation requested before it is thrown
\* into the coroutine before its first statement, outside its try block;
\* otherwise _gc_loop runs up to its first asyncio.sleep
GcTaskFirstTurn(task, now) ==
    IF task.cancel_requested THEN [task EXCEPT !.st = "cancelled"]
    ELSE [task EXCEPT !.st = "sleeping",
                      !.wake = now + SESSION_GC_INTERVAL * TicksPerSec]

\* CancelledError raised by asyncio.sleep inside the try block of _gc_loop:
\* "except asyncio.CancelledError: pass" and the coroutine returns
GcTaskCancelledInSleep_Resume(task) == task
GcTaskCancelledInSleep(task) == [task EXCEPT !.st = "finished"]

\* "await _GC_TASK" in _stop_gc, once the task is done: the await raises
\* CancelledError if the task was cancelled; _stop_gc catches that one
AwaitGcTask(task) == IF task.st = "cancelled" THEN "CancelledError" ELSE "returned"
StopGcCatches(exc) == exc = "CancelledError"

\* a call into the session store that has not happened
NoSessCall == [seq |-> 0, op |-> "none", arg |-> None, sid |-> <<>>]

----------------------------------------------------------------------------
(* app.py: the middleware stack and the routes *)

RECURSIVE Reverse(_)
Reverse(seq) == IF seq = <<>> THEN <<>> ELSE Reverse(Tail(seq)) \o <<Head(seq)>>

\* the middlewares in the order app.py registers them (CORSMiddleware, which
\* is registered first and lets these requests through untouched, left out)
Registered == <<"session", "anti_replay", "rate_limit", "logging", "csrf_seed">>

\* add_middleware puts each middleware in front of those registered before
\* it, so the one registered last runs first; the router is innermost
Stack == Reverse(Registered) \o <<"route">>

\* what call_next of a middleware runs
Inner(stage) == Stack[(CHOOSE i \in 1..Len(Stack) : Stack[i] = stage) + 1]

\* a middleware either returns its own Response, which ends the request, or
\* awaits call_next
Proceed_Regardless(stage, status) == Inner(stage)
Proceed(stage, status) == IF status = 0 THEN Inner(stage) ELSE "done"

\* the routes: 404 for an unknown path, 405 for a known path's other methods
RouteOf(method, path) ==
    IF path = "/api/chat" THEN (IF method = "POST" THEN "chat_endpoint" ELSE "405")
    ELSE IF path = "/healthz" THEN (IF method = "GET" THEN "healthz" ELSE "405")
    ELSE IF path = "/me" THEN (IF method = "GET" THEN "me" ELSE "405")
    ELSE "404"

\* chat_endpoint's validation of the payload: 400 or the 200 stream
Payloads == {"", "{", "{}", "{\"message\": \" \"}", "{\"message\": \"hello\"}"}
ChatEndpoint(payload) ==
    IF payload = "" THEN 400
    ELSE IF payload = "{" THEN 400
    ELSE IF payload = "{}" THEN 400
    ELSE IF payload = "{\"message\": \" \"}" THEN 400
    ELSE 200

\* http_exception_handler: the JSON body {"detail": exc.detail} of the
\* response made for an HTTPException whose detail is a text
HttpExceptionBody(detail) == [detail |-> detail]

\* what the middlewares add to the response on its way out
NoResponse == [request_id |-> FALSE, sid_cookie |-> None, sid_max_age |-> 0,
               csrf_seeded |-> FALSE]

Entered(q, stage) == \E i \in 1..Len(q.trail) : q.trail[i] = stage

\* an exception that escapes the stack is answered by the server's plain 500:
\* no middleware touches that response
Decorate_SeedFalsy(q) ==
    IF q.raised THEN NoResponse
    ELSE [request_id |-> Entered(q, "logging"),
          sid_cookie |-> IF Entered(q, "session") THEN q.sid ELSE None,
          sid_max_age |-> IF Entered(q, "session") THEN SESSION_TTL ELSE 0,
          csrf_seeded |-> Entered(q, "csrf_seed") /\ ~Truthy(q.csrf_cookie)]

Decorate(q) ==
    IF q.raised THEN NoResponse
    ELSE [request_id |-> Entered(q, "logging"),
          sid_cookie |-> IF Entered(q, "session") THEN q.sid ELSE None,
          sid_max_age |-> IF Entered(q, "session") THEN SESSION_TTL ELSE 0,
          csrf_seeded |-> Entered(q, "csrf_seed") /\ q.csrf_cookie = None]

\* a request: what it carries, where it is, and what was done for it
\* (rl, ar, csrf: the guard's verdict, -1 while the guard has not run;
\*  nonce, ar_at: the nonce the anti-replay guard stored for it and when;
\*  valid: everything the request has shown so far is what a well-behaved
\*  client with a bucket token, a fresh timestamp and a new nonce sends)
NoRequest == [pc |-> "new", method |-> "GET", path |-> "/healthz", client |-> "c1",
              csrf_cookie |-> None, trail |-> <<>>, status |-> 0, raised |-> FALSE,
              rl |-> 0 - 1, ar |-> 0 - 1, csrf |-> 0 - 1, handler |-> FALSE,
              nonce |-> None, ar_at |-> 0, created |-> FALSE, sid |-> None,
              valid |-> TRUE, resp |-> NoResponse]

\* the response leaves through the middlewares the request came in through
Done(q) == [q EXCEPT !.pc = "done", !.resp = Decorate(q), !.ar_at = 0]

\* request q with a middleware run up to its return or its call_next; the
\* cookies of a request answered before the router are read by the response
\* decoration alone
Step(q, stage, status, cookie) ==
    LET after == [q EXCEPT !.trail = Append(@, stage),
                           !.pc = Proceed(stage, status),
                           !.status = IF status = 0 THEN @ ELSE status]
    IN IF after.pc = "done" THEN Done([after EXCEPT !.csrf_cookie = cookie])
       ELSE after

----------------------------------------------------------------------------
(* Initial program state: the module-level stores are empty *)

\* RATE_LIMIT_RPS is read from the environment when the module is loaded:
\* the limiter off (0), the lowest rate whose burst holds a whole token, and
\* one token per second
DefaultRps == (RpsDenominator + 1) \div 2
RpsConfigs == {0, DefaultRps, RpsDenominator}

InitState ==
    /\ clock = StartClock
    /\ NONCES = EmptyDict
    /\ RATE_LIMIT_STATE = EmptyDict
    /\ arCall = NoArCall
    /\ admitAt = EmptyDict
    /\ rlLog = EmptyDict
    /\ SESSIONS = EmptyDict
    /\ issued = 0
    /\ req = [r \in 1..MaxRequests |-> NoRequest]
    /\ firstSeen = EmptyDict
    /\ sessCall = NoSessCall
    /\ GC_TASK = None
    /\ gcTasks = <<>>
    /\ stopGc = "idle"

----------------------------------------------------------------------------
(* Specification SpecCsrf: require_csrf applied to every argument triple *)

InitCsrf ==
    /\ InitState
    /\ RATE_LIMIT_RPS = DefaultRps
    /\ csrfCall \in {[NoCsrfCall EXCEPT !.pc = "call", !.method = m,
                                        !.cookie = c, !.header = h] :
                        m \in Methods, c \in TokenValues, h \in TokenValues}

RequireCsrfCall ==
    /\ csrfCall.pc = "call"
    /\ LET r == RequireCsrf(csrfCall.method, csrfCall.cookie, csrfCall.header)
       IN csrfCall' = [csrfCall EXCEPT
                          !.pc = "returned",
                          !.status = r.status, !.reason = r.reason,
                          !.body = IF r.status = 403
                                   THEN Some(HttpExceptionBody(CsrfDetail(r.reason)))
                                   ELSE None]
    /\ UNCHANGED <<clock, NONCES, RATE_LIMIT_RPS, RATE_LIMIT_STATE, arCall, admitAt, rlLog, pipeline, reaper>>

NextCsrf == RequireCsrfCall

SpecCsrf == InitCsrf /\ [][NextCsrf]_vars

(* C8 as stated: on a mutating method require_csrf passes exactly when the
   csrftoken cookie and the X-CSRF-Token header are both present and equal,
   and otherwise rejects with 403 (missing when either is absent, mismatch
   when both are present and differ); on any other method it passes. *)
C8_AsStated ==
    csrfCall.pc = "returned" =>
        LET present == csrfCall.cookie # None /\ csrfCall.header # None
        IN IF csrfCall.method \in MUTATING_METHODS
           THEN /\ csrfCall.status = 0 <=> (present /\ csrfCall.cookie = csrfCall.header)
                /\ csrfCall.status # 0 =>
                     /\ csrfCall.status = 403
                     /\ csrfCall.reason = IF present THEN "mismatch" ELSE "missing"
           ELSE csrfCall.status = 0

(* C8 amended: on a mutating method require_csrf passes exactly when cookie
   and header are both present, non-empty, ASCII-only and equal.  It rejects
   with 403 "missing" when either is absent or empty, with 403 "mismatch"
   when both are non-empty ASCII texts that differ, and fails with an
   uncaught TypeError (500, never a pass) when both are non-empty and either
   holds a non-ASCII character.  On any other method it passes whatever the
   cookie and header. *)
C8_CsrfDecision ==
    csrfCall.pc = "returned" =>
        LET given(v) == v # None /\ Len(v[1]) > 0
            both == given(csrfCall.cookie) /\ given(csrfCall.header)
            ascii == \A v \in {csrfCall.cookie, csrfCall.header} :
                        \A i \in 1..Len(v[1]) : v[1][i] <= 127
            outcome == <<csrfCall.status, csrfCall.reason>>
        IN IF csrfCall.method \notin {"POST", "PUT", "PATCH", "DELETE"}
           THEN csrfCall.status = 0
           ELSE /\ ~both <=> outcome = <<403, "missing">>
                /\ (both /\ ~ascii) <=> csrfCall.status = 500
                /\ (both /\ ascii /\ csrfCall.cookie # csrfCall.header)
                       <=> outcome = <<403, "mismatch">>
                /\ (both /\ ascii /\ csrfCall.cookie = csrfCall.header)
                       <=> csrfCall.status = 0

\* a mutating request whose cookie and header are both present but empty is
\* turned away as "missing"
C8_Witness ==
    /\ csrfCall.pc = "returned"
    /\ csrfCall.method = "POST"
    /\ csrfCall.cookie = Some(<<>>) /\ csrfCall.header = Some(<<>>)
    /\ csrfCall.status = 403

\* the response to the mutating request that has neither cookie nor header
C15_MissingResponse ==
    LET r == RequireCsrf("POST", None, None)
    IN <<r.status, Some(HttpExceptionBody(CsrfDetail(r.reason)))>>

(* C15 as stated: the response to a CSRF rejection does not depend on the
   reason: every mutating request that is rejected, for a missing cookie or
   header or for unequal values, gets the status 403 and the body that the
   request with neither cookie nor header gets. *)
C15_AsStated ==
    (/\ csrfCall.pc = "returned"
     /\ csrfCall.method \in MUTATING_METHODS
     /\ csrfCall.reason \in {"missing", "mismatch"})
    => <<csrfCall.status, csrfCall.body>> = C15_MissingResponse

----------------------------------------------------------------------------
(* Time passes *)

Tick ==
    /\ clock < MaxClock
    /\ clock' = clock + 1
    /\ UNCHANGED <<NONCES, RATE_LIMIT_RPS, RATE_LIMIT_STATE, csrfCall, arCall, admitAt, rlLog, pipeline, reaper>>

----------------------------------------------------------------------------
(* Specification SpecAR: requests reaching AntiReplayMiddleware.dispatch *)

ArMethods == {"GET", "POST"}

InitAR == InitState /\ RATE_LIMIT_RPS = DefaultRps /\ csrfCall = NoCsrfCall

\* the guard handles one request
AntiReplayHandle(method, ts_header, nonce) ==
    LET r == AntiReplayDispatch(method, ts_header, nonce, NowSec, NONCES)
    IN /\ NONCES' = r.nonces
       /\ arCall' = [seq |-> 1 - arCall.seq, method |-> method,
                     ts_header |-> ts_header, nonce |-> nonce,
                     status |-> r.status, reason |-> r.reason]
       /\ admitAt' = IF r.reason = "ok"
                     THEN Put(admitAt, nonce[1], NowSec)
                     ELSE admitAt
       /\ UNCHANGED <<clock, RATE_LIMIT_RPS, RATE_LIMIT_STATE, csrfCall, rlLog, pipeline, reaper>>

AntiReplayCall ==
    \E method \in ArMethods, ts_header \in TsHeaders, nonce \in NonceHeaders :
        AntiReplayHandle(method, ts_header, nonce)

NextAR == AntiReplayCall \/ Tick

SpecAR == InitAR /\ [][NextAR]_vars

\* a step of SpecAR in which the guard handled a request
ArStep == arCall'.seq # arCall.seq

(* C1: once a mutating request carrying nonce n has been admitted by the
   guard at second t0, every later mutating request carrying n that the guard
   handles at a second t1 with t1 - t0 < FRESHNESS_WINDOW is answered 401;
   n is admitted again only when the window has passed. *)
C1_NoReplayInWindow ==
    [][\A n \in DOMAIN admitAt :
          (/\ ArStep
           /\ arCall'.method \in MUTATING_METHODS
           /\ arCall'.nonce = Some(n)
           /\ NowSec - admitAt[n] < FRESHNESS_WINDOW)
          => arCall'.status = 401]_vars

\* a replay inside the window was refused although its timestamp was fresh
C1_Witness ==
    /\ arCall.reason = "nonce_reuse"
    /\ arCall.status = 401
    /\ arCall.nonce[1] \in DOMAIN admitAt
    /\ NowSec - admitAt[arCall.nonce[1]] < FRESHNESS_WINDOW

\* the integer a text denotes, by the texts clients write for it
C9_TextsOf(i) ==
    {Decimal(i)} \cup (IF i \in DecoratedSeconds THEN Decorated(i) ELSE {})
C9_Integers == TsSeconds \cup DecoratedSeconds
C9_IsInteger(text) == \E i \in C9_Integers : text \in C9_TextsOf(i)
C9_IntegerOf(text) == CHOOSE i \in C9_Integers : text \in C9_TextsOf(i)

\* the reference decision of the guard, with Lacking(h) saying that header h
\* does not count as sent
C9_Reference(Lacking(_)) ==
    LET ts == arCall'.ts_header
        n == arCall'.nonce
        now == NowSec
        live == {k \in DOMAIN NONCES : NONCES[k] > now}
        kept == [k \in live |-> NONCES[k]]
        untouched == NONCES' = NONCES
    IN ArStep =>
        IF arCall'.method \notin {"POST", "PUT", "PATCH", "DELETE"}
        THEN arCall'.status = 0 /\ untouched
        ELSE IF Lacking(ts) \/ Lacking(n)
        THEN arCall'.status = 401 /\ untouched
        ELSE IF ~C9_IsInteger(ts[1])
        THEN arCall'.status = 401 /\ untouched
        ELSE IF now - C9_IntegerOf(ts[1]) > FRESHNESS_WINDOW
                \/ C9_IntegerOf(ts[1]) - now > FRESHNESS_WINDOW
        THEN arCall'.status = 401 /\ untouched
        ELSE IF n[1] \in live
        THEN arCall'.status = 401 /\ NONCES' = kept
        ELSE /\ arCall'.status = 0
             /\ DOMAIN NONCES' = live \cup {n[1]}
             /\ NONCES'[n[1]] = now + FRESHNESS_WINDOW
             /\ \A k \in live \ {n[1]} : NONCES'[k] = NONCES[k]

C9_Absent(h) == h = None
C9_AbsentOrEmpty(h) == h = None \/ h = Some(<<>>)

(* C9 as stated: the guard's decision equals the reference in which a header
   is lacking only when it is absent. *)
C9_AsStated == [][C9_Reference(C9_Absent)]_vars

(* C9 amended: the guard's decision equals the reference, evaluated in this
   order: a non-mutating method is admitted with the nonce store untouched;
   otherwise 401 if X-TS or X-Nonce is absent or empty; 401 if X-TS is not
   an integer; 401 if |now - ts| > FRESHNESS_WINDOW, past and future alike
   (a distance of exactly the window is accepted); then expired records are
   purged and 401 is returned if the nonce is still stored; otherwise the
   nonce is recorded with expiry now + FRESHNESS_WINDOW and the request is
   admitted.  The rejections before the purge leave the store unchanged. *)
C9_GuardDecision == [][C9_Reference(C9_AbsentOrEmpty)]_vars

\* a request stamped further in the future than the window was refused
C9_Witness ==
    /\ arCall.method = "POST"
    /\ arCall.reason = "stale_ts"
    /\ PyInt(arCall.ts_header[1]) - NowSec > FRESHNESS_WINDOW

----------------------------------------------------------------------------
(* Specification SpecRL: requests reaching RateLimitMiddleware.dispatch *)

InitRL == InitState /\ RATE_LIMIT_RPS \in RpsConfigs /\ csrfCall = NoCsrfCall

LogOf(client) == IF client \in DOMAIN rlLog THEN rlLog[client] ELSE <<>>

RateLimitCall ==
    \E client \in Clients :
        LET r == RateLimitDispatch(RATE_LIMIT_RPS, RATE_LIMIT_STATE, client, clock)
        IN /\ Len(LogOf(client)) < MaxLog
           /\ RATE_LIMIT_STATE' = r.state
           /\ rlLog' = Put(rlLog, client,
                           Append(LogOf(client), [at |-> clock, status |-> r.status]))
           /\ UNCHANGED <<clock, NONCES, RATE_LIMIT_RPS, csrfCall, arCall, admitAt, pipeline, reaper>>

NextRL == RateLimitCall \/ Tick

SpecRL == InitRL /\ [][NextRL]_vars

(* C5: in every reachable state, for every client address, the stored token
   count t satisfies 0 <= t <= burst, with burst = 2 x rate. *)
C5_TokensWithinBurst ==
    \A c \in DOMAIN RATE_LIMIT_STATE :
        /\ RATE_LIMIT_STATE[c].tokens >= 0
        /\ RATE_LIMIT_STATE[c].tokens <= 2 * RATE_LIMIT_RPS * TicksPerSec

\* a bucket that was refilled over a pause long enough to overshoot the burst
\* and then paid one token
C5_Witness ==
    \E c \in DOMAIN rlLog :
        LET log == rlLog[c]
            n == Len(log)
        IN /\ n >= 2
           /\ log[n].status = 0
           /\ log[n - 1].status = 0
           /\ (log[n].at - log[n - 1].at) * RATE_LIMIT_RPS > RpsDenominator * TicksPerSec
           /\ RATE_LIMIT_STATE[c].ts = log[n].at
           /\ RATE_LIMIT_STATE[c].tokens
                = 2 * RATE_LIMIT_RPS * TicksPerSec - RpsDenominator * TicksPerSec

\* the first i requests of client c all arrived at the time of its first one
C6_Burst(c, i) == \A j \in 1..i : rlLog[c][j].at = rlLog[c][1].at

\* the burst, when it is a whole number of tokens
C6_B == (2 * RATE_LIMIT_RPS) \div RpsDenominator
C6_Applies == RATE_LIMIT_RPS > 0 /\ (2 * RATE_LIMIT_RPS) % RpsDenominator = 0

\* request i of client c came exactly 1/rate seconds after its first one
C6_PeriodLater(c, i) ==
    (rlLog[c][i].at - rlLog[c][1].at) * RATE_LIMIT_RPS = RpsDenominator * TicksPerSec

(* C6: for a client address seen for the first time (integer burst B) and a
   positive rate, of a run of requests with no time elapsing between them
   exactly the first B are admitted and every later one, the (B+1)-th
   first, gets 429; if 1/rate seconds then pass, exactly one more request is
   admitted and the one immediately after it is rejected. *)
C6_BurstThenOnePerPeriod ==
    C6_Applies =>
    \A c \in DOMAIN rlLog :
        LET log == rlLog[c]
        IN /\ \A i \in 1..Len(log) :
                C6_Burst(c, i) => /\ log[i].status = 0 <=> i <= C6_B
                                  /\ log[i].status = 429 <=> i > C6_B
           /\ \A i \in 2..Len(log) :
                (C6_Burst(c, i - 1) /\ i - 1 >= C6_B /\ C6_PeriodLater(c, i))
                => /\ log[i].status = 0
                   /\ (i < Len(log) /\ log[i + 1].at = log[i].at)
                          => log[i + 1].status = 429

\* B + 1 requests at once, then 1/rate seconds later one admitted and one
\* rejected
C6_Witness ==
    /\ C6_Applies
    /\ \E c \in DOMAIN rlLog :
        LET log == rlLog[c]
        IN /\ Len(log) = C6_B + 3
           /\ C6_Burst(c, C6_B + 1)
           /\ log[C6_B + 1].status = 429
           /\ C6_PeriodLater(c, C6_B + 2)
           /\ log[C6_B + 3].at = log[C6_B + 2].at
           /\ log[C6_B + 2].status = 0
           /\ log[C6_B + 3].status = 429

\* a step of SpecRL in which the limiter rejected a request of client c
C7_Rejects(c) ==
    /\ LogOf(c)' # LogOf(c)
    /\ LogOf(c)'[Len(LogOf(c)')].status = 429

(* C7 as stated: when the limiter rejects a request with 429, the bucket
   stored for that client (token count and last-observation timestamp) is
   the same after the request as before it. *)
C7_AsStated ==
    [][\A c \in Clients :
          C7_Rejects(c) =>
              /\ c \in DOMAIN RATE_LIMIT_STATE
              /\ RATE_LIMIT_STATE'[c] = RATE_LIMIT_STATE[c]]_vars

(* C7 amended: when the limiter rejects a request with 429 (tokens < 1.0)
   no token is consumed: the stored token count afterwards is the count
   before plus the refill earned since the last observation (elapsed x rate,
   capped at burst; the full burst for a first-seen client), so it is never
   lower than before, and the last-observation timestamp is set to the time
   of the rejected request. *)
C7_RejectionKeepsTokens ==
    [][\A c \in Clients :
          C7_Rejects(c) =>
              LET after == RATE_LIMIT_STATE'[c]
                  burst == 2 * RATE_LIMIT_RPS * TicksPerSec
              IN /\ after.ts = clock
                 /\ after.tokens < RpsDenominator * TicksPerSec
                 /\ IF c \in DOMAIN RATE_LIMIT_STATE
                    THEN LET before == RATE_LIMIT_STATE[c]
                             earned == (clock - before.ts) * RATE_LIMIT_RPS
                         IN /\ after.tokens >= before.tokens
                            /\ after.tokens = IF before.tokens + earned > burst
                                              THEN burst
                                              ELSE before.tokens + earned
                    ELSE after.tokens = burst]_vars

\* a rejected request that arrived after its bucket had earned part of a
\* token: the stored bucket now carries the new timestamp
C7_Witness ==
    \E c \in DOMAIN rlLog :
        LET log == rlLog[c]
            n == Len(log)
        IN /\ n >= 2
           /\ log[n].status = 429
           /\ log[n].at > log[n - 1].at
           /\ RATE_LIMIT_STATE[c].ts = log[n].at
           /\ RATE_LIMIT_STATE[c].tokens > 0

----------------------------------------------------------------------------
(* Specification Spec: requests handled concurrently by the whole stack.
   Every action is the code one request runs between two awaits that touch
   the stores; a header or cookie is drawn where the code first reads it. *)

PipeClients == {"c1"}
PipeMethods == {"GET", "POST"}
Paths == {"/api/chat", "/healthz"}
CsrfCookies == {None, Some(<<>>), Some(<<97>>)}
PipeNonces == {None, Some(<<97>>)}
\* X-TS: absent, or a second at, just inside or just outside either end of
\* the freshness window
PipeTs ==
    {None} \cup {Some(Decimal(NowSec + d)) :
                   d \in {0 - FRESHNESS_WINDOW - 1, 0 - FRESHNESS_WINDOW, 0,
                          FRESHNESS_WINDOW, FRESHNESS_WINDOW + 1}}
\* X-CSRF-Token: absent, "", "a", "b", "\u00e9"
PipeTokens == {None, Some(<<>>), Some(<<97>>), Some(<<98>>), Some(<<233>>)}
guards == <<csrfCall, arCall, admitAt, rlLog>>

\* the csrftoken cookie is first read where the request is answered: by the
\* response decoration of a request a middleware turns away with status, by
\* the router's dependencies otherwise. The empty cookie is drawn where
\* require_csrf reads it too.
CookiesRead(status) == IF status = 0 THEN {None} ELSE CsrfCookies \ {Some(<<>>)}

\* what a request shows a guard when it is the request of a well-behaved
\* client: the client's bucket holds a whole token, X-TS is the decimal text
\* of a second within the freshness window, X-Nonce is a non-empty text the
\* nonce store does not hold
HoldsToken(client) ==
    IF client \in DOMAIN RATE_LIMIT_STATE
    THEN Min(BurstUnits(RATE_LIMIT_RPS),
             RATE_LIMIT_STATE[client].tokens
               + (clock - RATE_LIMIT_STATE[client].ts) * RATE_LIMIT_RPS) >= OneToken
    ELSE BurstUnits(RATE_LIMIT_RPS) >= OneToken
WithinWindow(ts_header) ==
    /\ ts_header # None
    /\ \E i \in TsSeconds : /\ ts_header[1] = Decimal(i)
                            /\ Abs(NowSec - i) <= FRESHNESS_WINDOW
NewNonce(nonce) ==
    nonce # None /\ nonce[1] # <<>> /\ nonce[1] \notin DOMAIN NONCES

Init == InitState /\ RATE_LIMIT_RPS = DefaultRps /\ csrfCall = NoCsrfCall

\* the request enters the stack: ensure_csrf_cookie_middleware and
\* add_request_logging up to their call_next
Arrive(r) ==
    /\ req[r].pc = "new"
    /\ \A earlier \in 1..(r - 1) : req[earlier].pc # "new"
    /\ req' = [req EXCEPT ![r] = Step(Step(@, "csrf_seed", 0, None), "logging", 0, None)]
    /\ UNCHANGED <<clock, NONCES, RATE_LIMIT_RPS, RATE_LIMIT_STATE, SESSIONS,
                   issued, firstSeen, guards, reaper>>

RateLimitStep(r) ==
    /\ req[r].pc = "rate_limit"
    /\ \E client \in PipeClients :
          LET d == RateLimitDispatch(RATE_LIMIT_RPS, RATE_LIMIT_STATE, client, clock)
          IN \E cookie \in CookiesRead(d.status) :
             /\ RATE_LIMIT_STATE' = d.state
             /\ req' = [req EXCEPT ![r] =
                          Step([@ EXCEPT !.rl = d.status, !.client = client,
                                         !.valid = @ /\ HoldsToken(client)],
                               "rate_limit", d.status, cookie)]
             /\ firstSeen' = IF client \in DOMAIN firstSeen THEN firstSeen
                             ELSE Put(firstSeen, client, clock)
    /\ UNCHANGED <<clock, NONCES, RATE_LIMIT_RPS, SESSIONS, issued, guards, reaper>>

AntiReplayStep(r) ==
    /\ req[r].pc = "anti_replay"
    /\ \E method \in PipeMethods, ts_header \in PipeTs, nonce \in PipeNonces :
          LET d == AntiReplayDispatch(method, ts_header, nonce, NowSec, NONCES)
          IN \E cookie \in CookiesRead(d.status) :
             /\ NONCES' = d.nonces
             /\ req' = [req EXCEPT ![r] =
                          Step([@ EXCEPT
                                  !.method = method,
                                  !.ar = d.status,
                                  !.valid = /\ @
                                            /\ method = "POST"
                                            /\ WithinWindow(ts_header)
                                            /\ NewNonce(nonce),
                                  !.nonce = IF d.reason = "ok" THEN nonce ELSE None,
                                  !.ar_at = IF d.reason = "ok" THEN NowSec ELSE 0],
                               "anti_replay", d.status, cookie)]
    /\ UNCHANGED <<clock, RATE_LIMIT_RPS, RATE_LIMIT_STATE, SESSIONS, issued,
                   firstSeen, guards, reaper>>

\* the sid cookies a client can send: none, "", a made-up "x", or any
\* identifier the service has issued
SidCookies == {None, Some(<<>>), Some(<<120>>)}
              \cup {Some(GenerateSid(n)) : n \in 1..issued}

SessionStep(r) ==
    /\ req[r].pc = "session"
    /\ \E sid_cookie \in SidCookies :
          LET d == SessionDispatch(sid_cookie, clock, SESSIONS, GenerateSid(issued + 1))
          IN /\ SESSIONS' = d.sessions
             /\ issued' = IF d.created THEN issued + 1 ELSE issued
             /\ req' = [req EXCEPT ![r] =
                          Step([@ EXCEPT !.sid = Some(d.sid), !.created = d.created],
                               "session", 0, None)]
    /\ UNCHANGED <<clock, NONCES, RATE_LIMIT_RPS, RATE_LIMIT_STATE, firstSeen, guards, reaper>>

\* the router: route lookup, then the route's dependencies (require_csrf)
RouteStep(r) ==
    /\ req[r].pc = "route"
    /\ \E path \in Paths, cookie \in CsrfCookies :
       LET q == [req[r] EXCEPT !.trail = Append(@, "route"), !.path = path,
                               !.csrf_cookie = cookie,
                               !.valid = @ /\ path = "/api/chat" /\ Truthy(cookie)]
           route == RouteOf(q.method, path)
       IN IF route \in {"404", "405"}
          THEN req' = [req EXCEPT ![r] =
                         Done([q EXCEPT !.status = IF route = "404" THEN 404 ELSE 405])]
          ELSE IF route # "chat_endpoint"
          THEN req' = [req EXCEPT ![r] = [q EXCEPT !.pc = "handler"]]
          ELSE \E header \in PipeTokens :
                  LET d == RequireCsrf(q.method, q.csrf_cookie, header)
                      checked == [q EXCEPT !.trail = Append(@, "csrf"),
                                           !.csrf = d.status,
                                           !.valid = @ /\ header = q.csrf_cookie,
                                           !.status = d.status,
                                           !.raised = (d.status = 500)]
                  IN req' = [req EXCEPT ![r] =
                               IF d.status = 0 THEN [checked EXCEPT !.pc = "handler"]
                               ELSE Done(checked)]
    /\ UNCHANGED <<clock, NONCES, RATE_LIMIT_RPS, RATE_LIMIT_STATE, SESSIONS,
                   issued, firstSeen, guards, reaper>>

\* the endpoint function
HandlerStep(r) ==
    /\ req[r].pc = "handler"
    /\ \E payload \in Payloads :
          req' = [req EXCEPT ![r] =
                    Done([@ EXCEPT !.trail = Append(@, "handler"),
                                   !.handler = TRUE,
                                   !.valid = @ /\ payload = "{\"message\": \"hello\"}",
                                   !.status = IF RouteOf(req[r].method, req[r].path)
                                                 = "chat_endpoint"
                                              THEN ChatEndpoint(payload) ELSE 200])]
    /\ UNCHANGED <<clock, NONCES, RATE_LIMIT_RPS, RATE_LIMIT_STATE, SESSIONS,
                   issued, firstSeen, guards, reaper>>

Next ==
    \/ \E r \in 1..MaxRequests :
          \/ Arrive(r)
          \/ RateLimitStep(r)
          \/ AntiReplayStep(r)
          \/ SessionStep(r)
          \/ RouteStep(r)
          \/ HandlerStep(r)
    \/ Tick

Spec == Init /\ [][Next]_vars

\* the i-th request, and where a stage stands in a request's trail
Requests == 1..MaxRequests
Pos(q, stage) == CHOOSE i \in 1..Len(q.trail) : q.trail[i] = stage
Finished(q) == q.pc = "done"
InFlight(q) == q.pc \notin {"new", "done"}

\* the order of the guards as the specification gives it
C2_Order == <<"logging", "session", "anti_replay", "rate_limit", "csrf", "handler">>

(* C2 as stated: for every request the guards are evaluated in the order
   logging wrapper, session resolution, anti-replay check, rate-limit check,
   CSRF check, handler; so the session is resolved by the time the
   anti-replay and the rate-limit guards run, and a request the rate limiter
   answers with 429 has been through the anti-replay guard and passed it. *)
C2_AsStated ==
    \A r \in Requests :
        LET q == req[r]
        IN /\ \A i, j \in 1..Len(C2_Order) :
                (i < j /\ Entered(q, C2_Order[i]) /\ Entered(q, C2_Order[j]))
                => Pos(q, C2_Order[i]) < Pos(q, C2_Order[j])
           /\ (Entered(q, "anti_replay") \/ Entered(q, "rate_limit"))
                => (Entered(q, "session") /\ q.sid # None)
           /\ q.status = 429 => q.ar = 0

\* a request turned away by one of the three guards
C3_Rejected(q) == Finished(q) /\ q.status \in {401, 429, 403}

(* C3 as stated: a request rejected by a guard (401, 429, 403) has had no
   effect on shared state: it has taken no token from its client's bucket,
   its nonce is not in the nonce store, and no session record was created
   for it. *)
C3_AsStated ==
    \A r \in Requests :
        LET q == req[r]
        IN C3_Rejected(q) =>
              /\ ~(q.rl = 0 /\ RATE_LIMIT_RPS > 0)
              /\ (q.nonce = None \/ q.nonce[1] \notin DOMAIN NONCES)
              /\ ~q.created

(* C4: once a guard rejects a request nothing later runs for it: the stage
   that rejected is the last one in its trail, the request is finished with
   the guard's status, and the response carries X-Request-Id; a handler runs
   only for requests no guard rejected, and the /api/chat handler only for
   requests that the rate limiter, the anti-replay guard and the CSRF check
   all admitted. *)
C4_ShortCircuit ==
    \A r \in Requests :
        LET q == req[r]
            stopped(stage, status) ==
                /\ Finished(q)
                /\ q.status = status
                /\ q.trail[Len(q.trail)] = stage
                /\ ~q.handler
                /\ q.resp.request_id
        IN /\ q.rl = 429 => stopped("rate_limit", 429)
           /\ q.ar = 401 => stopped("anti_replay", 401)
           /\ q.csrf = 403 => stopped("csrf", 403)
           /\ (q.handler \/ q.pc = "handler")
                => /\ q.rl = 0 /\ q.ar = 0 /\ q.csrf \in {0, 0 - 1}
                   /\ q.path = "/api/chat" => q.csrf = 0

\* requests were rejected by the anti-replay guard and by the CSRF check;
\* the first never reached the session middleware, neither reached a handler
C4_Witness ==
    \E r1, r2 \in Requests :
        /\ Finished(req[r1]) /\ req[r1].status = 401
        /\ ~Entered(req[r1], "session")
        /\ req[r1].resp.request_id
        /\ Finished(req[r2]) /\ req[r2].status = 403
        /\ ~req[r2].handler
        /\ req[r2].resp.request_id

\* the requests of client c that the rate limiter has admitted
C10_Admitted(c) == {r \in Requests : req[r].rl = 0 /\ req[r].client = c}

\* no more requests of a client are admitted than its bucket has held tokens:
\* the burst plus the refill earned since the client was first seen
C10_TokensNotOverspent ==
    \A c \in DOMAIN firstSeen :
        Cardinality(C10_Admitted(c)) * RpsDenominator * TicksPerSec
            <= 2 * RATE_LIMIT_RPS * TicksPerSec
               + (clock - firstSeen[c]) * RATE_LIMIT_RPS

\* two requests in flight for which the anti-replay guard stored the same nonce
C10_SameNonce(r1, r2) ==
    /\ r1 # r2
    /\ InFlight(req[r1]) /\ InFlight(req[r2])
    /\ req[r1].nonce # None
    /\ req[r1].nonce = req[r2].nonce

(* C10 as stated: under every interleaving, two in-flight mutating requests
   carrying the same nonce are never both admitted by the anti-replay guard,
   and the requests of one client address are never admitted in greater
   number than the tokens available in its bucket. *)
C10_AsStated ==
    /\ \A r1, r2 \in Requests : ~C10_SameNonce(r1, r2)
    /\ C10_TokensNotOverspent

(* C10 amended: under every interleaving, two in-flight mutating requests
   carrying the same nonce are both admitted by the anti-replay guard only
   when their admissions lie at least FRESHNESS_WINDOW seconds apart (the
   earlier one has stayed in flight for the whole window), and the requests
   of one client address are never admitted in greater number than the
   tokens available in its bucket (burst plus refill earned). *)
C10_AtomicPerKey ==
    /\ \A r1, r2 \in Requests :
          C10_SameNonce(r1, r2)
          => Abs(req[r1].ar_at - req[r2].ar_at) >= FRESHNESS_WINDOW
    /\ C10_TokensNotOverspent

\* a request still in flight a window after its admission, and a second one
\* admitted with its nonce
C10_Witness ==
    \E r1, r2 \in Requests :
        /\ C10_SameNonce(r1, r2)
        /\ req[r2].ar_at - req[r1].ar_at >= FRESHNESS_WINDOW
        /\ Cardinality(C10_Admitted(req[r1].client)) >= 2

(* C19: for every request, whatever its method and its outcome (401, 403,
   404, 405 and 429 included): the response sets a csrftoken cookie if the
   request carried none, and does not set one if the request carried one
   (an empty one included), so a client's token stays the same across
   requests. *)
C19_SeededIffMissing ==
    \A r \in Requests :
        LET q == req[r]
        IN Finished(q) => (q.resp.csrf_seeded <=> q.csrf_cookie = None)

\* a request turned away without the cookie got one; a request turned away
\* with an empty cookie did not
C19_Witness ==
    \E r1, r2 \in Requests :
        /\ Finished(req[r1]) /\ Finished(req[r2])
        /\ req[r1].status \in {401, 429}
        /\ req[r1].csrf_cookie = None /\ req[r1].resp.csrf_seeded
        /\ req[r2].status = 403
        /\ req[r2].csrf_cookie = Some(<<>>)
        /\ ~req[r2].resp.csrf_seeded

(* C18: no valid request is rejected. A POST to /api/chat that sends back a
   seeded csrftoken cookie and echoes it in X-CSRF-Token, carries an X-TS
   within the freshness window and an X-Nonce the nonce store does not hold,
   from a client whose bucket holds at least one token, is admitted by the
   rate limiter, the anti-replay guard and the CSRF check, reaches the
   handler and, with a well-formed body, is answered 200, whatever requests
   preceded it. *)
C18_ValidAdmitted ==
    \A r \in Requests :
        LET q == req[r]
        IN q.valid =>
              /\ q.rl \in {0 - 1, 0}
              /\ q.ar \in {0 - 1, 0}
              /\ q.csrf \in {0 - 1, 0}
              /\ ~q.raised
              /\ Finished(q) =>
                    /\ q.handler
                    /\ q.status = 200
                    /\ q.rl = 0 /\ q.ar = 0 /\ q.csrf = 0

\* a valid request answered 200 after an earlier request was turned away
C18_Witness ==
    \E r1, r2 \in Requests :
        /\ r1 < r2
        /\ Finished(req[r1]) /\ req[r1].status \in {401, 403, 409, 429}
        /\ Finished(req[r2]) /\ req[r2].valid
        /\ req[r2].status = 200 /\ req[r2].handler

----------------------------------------------------------------------------
(* Specification SpecReplay: the anti-replay guard handles one request and
   then, at any later times, byte-identical copies of it. *)

FirstRequest ==
    /\ arCall = NoArCall
    /\ AntiReplayCall

Replay ==
    /\ arCall # NoArCall
    /\ AntiReplayHandle(arCall.method, arCall.ts_header, arCall.nonce)

NextReplay == FirstRequest \/ Replay \/ Tick

SpecReplay == InitAR /\ [][NextReplay]_vars

(* C20 as stated: the guard admits a byte-identical mutating request (the
   same X-TS with the same X-Nonce) at most once, over any sequence of
   copies and clock advances: a copy of a request the guard has admitted is
   answered 401, requests whose X-TS lies in the future of the server clock
   included. *)
C20_AsStated ==
    [][(/\ ArStep
        /\ arCall'.method \in MUTATING_METHODS
        /\ Truthy(arCall'.nonce)
        /\ arCall'.nonce[1] \in DOMAIN admitAt)
       => arCall'.status = 401]_vars

----------------------------------------------------------------------------
(* Specification SpecSess: the session store driven directly: resolution by
   SessionMiddleware.dispatch, rotate_sid, writes of a handler to the record
   it is handed in request.state.session, and the reaper. *)

\* the identifiers issued so far, and the values rotate_sid is called with
IssuedSids == {GenerateSid(n) : n \in 1..issued}
RotateArgs == {<<120>>} \cup IssuedSids

\* what a handler stores in its session: the user and an attribute of its own
SessionWrites == {[user_id |-> Some("u1"), theme |-> "dark"]}

InitSess == InitState /\ RATE_LIMIT_RPS = DefaultRps /\ csrfCall = NoCsrfCall

ResolveCall ==
    \E sid_cookie \in SidCookies :
        LET d == SessionDispatch(sid_cookie, clock, SESSIONS, GenerateSid(issued + 1))
        IN /\ d.created => issued < MaxSids
           /\ SESSIONS' = d.sessions
           /\ issued' = IF d.created THEN issued + 1 ELSE issued
           /\ sessCall' = [seq |-> 1 - sessCall.seq, op |-> "resolve",
                           arg |-> sid_cookie, sid |-> d.sid]
           /\ UNCHANGED <<clock, NONCES, RATE_LIMIT_RPS, RATE_LIMIT_STATE, req,
                          firstSeen, guards, GC_TASK, gcTasks, stopGc>>

RotateCall ==
    \E old_sid \in RotateArgs :
        LET d == RotateSid(SESSIONS, old_sid, clock, GenerateSid(issued + 1))
        IN /\ issued < MaxSids
           /\ SESSIONS' = d.sessions
           /\ issued' = issued + 1
           /\ sessCall' = [seq |-> 1 - sessCall.seq, op |-> "rotate",
                           arg |-> Some(old_sid), sid |-> d.sid]
           /\ UNCHANGED <<clock, NONCES, RATE_LIMIT_RPS, RATE_LIMIT_STATE, req,
                          firstSeen, guards, GC_TASK, gcTasks, stopGc>>

\* a handler sets keys of the record it got from request.state.session
HandlerWrite ==
    \E sid \in DOMAIN SESSIONS, w \in SessionWrites :
        /\ Update(SESSIONS[sid], w) # SESSIONS[sid]
        /\ SESSIONS' = [SESSIONS EXCEPT ![sid] = Update(@, w)]
        /\ UNCHANGED <<clock, NONCES, RATE_LIMIT_RPS, RATE_LIMIT_STATE, issued, req,
                       firstSeen, guards, reaper>>

\* the startup event: _start_gc
StartGc ==
    LET d == StartGcHandler(GC_TASK, gcTasks)
    IN /\ Len(d.tasks) <= MaxTasks
       /\ GC_TASK' = d.gc_task
       /\ gcTasks' = d.tasks
       /\ UNCHANGED <<clock, NONCES, RATE_LIMIT_RPS, RATE_LIMIT_STATE, pipeline,
                      guards, sessCall, stopGc>>

\* the event loop runs reaper task t for the first time
GcBegin(t) ==
    /\ t \in DOMAIN gcTasks
    /\ gcTasks[t].st = "created"
    /\ gcTasks' = [gcTasks EXCEPT ![t] = GcTaskFirstTurn(@, clock)]
    /\ UNCHANGED <<clock, NONCES, RATE_LIMIT_RPS, RATE_LIMIT_STATE, pipeline,
                   guards, sessCall, GC_TASK, stopGc>>

\* the sleep of reaper task t is over: one pass, then the next sleep
GcPass(t) ==
    /\ t \in DOMAIN gcTasks
    /\ gcTasks[t].st = "sleeping"
    /\ ~gcTasks[t].cancel_requested
    /\ clock >= gcTasks[t].wake
    /\ SESSIONS' = GcSweep(SESSIONS, clock)
    /\ gcTasks' = [gcTasks EXCEPT ![t].wake = clock + SESSION_GC_INTERVAL * TicksPerSec]
    /\ sessCall' = [seq |-> 1 - sessCall.seq, op |-> "gc", arg |-> None, sid |-> <<>>]
    /\ UNCHANGED <<clock, NONCES, RATE_LIMIT_RPS, RATE_LIMIT_STATE, issued, req,
                   firstSeen, guards, GC_TASK, stopGc>>

\* the cancellation reaches reaper task t in its sleep
GcCancelled(t) ==
    /\ t \in DOMAIN gcTasks
    /\ gcTasks[t].st = "sleeping"
    /\ gcTasks[t].cancel_requested
    /\ gcTasks' = [gcTasks EXCEPT ![t] = GcTaskCancelledInSleep(@)]
    /\ UNCHANGED <<clock, NONCES, RATE_LIMIT_RPS, RATE_LIMIT_STATE, pipeline,
                   guards, sessCall, GC_TASK, stopGc>>

\* _stop_gc after "await _GC_TASK": the except clause, then _GC_TASK = None;
\* an exception it does not catch leaves the handler before the assignment
StopGcResume(gc_task, task) ==
    LET exc == AwaitGcTask(task)
    IN IF exc = "returned" \/ StopGcCatches(exc)
       THEN [gc_task |-> None, stop |-> "idle"]
       ELSE [gc_task |-> gc_task, stop |-> "failed"]

\* the shutdown event: _stop_gc up to its await (an await of a task that is
\* done does not suspend)
StopGcBegin ==
    /\ stopGc = "idle"
    /\ GC_TASK # None
    /\ LET t == GC_TASK[1]
           task == CancelTask(gcTasks[t])
       IN /\ gcTasks' = [gcTasks EXCEPT ![t] = task]
          /\ IF GcTaskDone(task)
             THEN /\ GC_TASK' = StopGcResume(GC_TASK, task).gc_task
                  /\ stopGc' = StopGcResume(GC_TASK, task).stop
             ELSE /\ GC_TASK' = GC_TASK
                  /\ stopGc' = "awaiting"
    /\ UNCHANGED <<clock, NONCES, RATE_LIMIT_RPS, RATE_LIMIT_STATE, pipeline,
                   guards, sessCall>>

\* _stop_gc resumes when the task it awaits is done
StopGcEnd ==
    /\ stopGc = "awaiting"
    /\ GcTaskDone(gcTasks[GC_TASK[1]])
    /\ GC_TASK' = StopGcResume(GC_TASK, gcTasks[GC_TASK[1]]).gc_task
    /\ stopGc' = StopGcResume(GC_TASK, gcTasks[GC_TASK[1]]).stop
    /\ UNCHANGED <<clock, NONCES, RATE_LIMIT_RPS, RATE_LIMIT_STATE, pipeline,
                   guards, sessCall, gcTasks>>

NextSess ==
    \/ ResolveCall
    \/ RotateCall
    \/ HandlerWrite
    \/ StartGc
    \/ \E t \in 1..MaxTasks : GcBegin(t) \/ GcPass(t)
    \/ Tick

SpecSess == InitSess /\ [][NextSess]_vars

\* a step of SpecSess in which the store was called with operation op
SessStep(op) == sessCall'.seq # sessCall.seq /\ sessCall'.op = op

(* C11: rotate(old) returns an identifier different from old, and right
   after it old is not a key of the store, so a request presenting old gets
   a fresh session.  If a record existed at old, the record under the new
   identifier has the old record's user_id and other attributes, the same
   created_at, and last_seen set to the time of the rotation; if none
   existed it has created_at = last_seen = now and no user. *)
C11_Rotation ==
    [][SessStep("rotate") =>
          LET old == sessCall'.arg[1]
              new == sessCall'.sid
          IN /\ new # old
             /\ old \notin DOMAIN SESSIONS'
             /\ new \in DOMAIN SESSIONS'
             /\ SessionDispatch(Some(old), clock, SESSIONS', <<110>>).created
             /\ IF old \in DOMAIN SESSIONS
                THEN /\ DOMAIN SESSIONS'[new] = DOMAIN SESSIONS[old]
                     /\ \A k \in DOMAIN SESSIONS[old] \ {"last_seen"} :
                           SESSIONS'[new][k] = SESSIONS[old][k]
                     /\ SESSIONS'[new].last_seen = clock
                ELSE SESSIONS'[new] = [created_at |-> clock, last_seen |-> clock,
                                       user_id |-> None]]_vars

\* a session with a user and an attribute of its own was rotated some time
\* after its creation: the new record has both, and the old creation time
C11_Witness ==
    /\ sessCall.op = "rotate"
    /\ sessCall.sid \in DOMAIN SESSIONS
    /\ sessCall.arg[1] \in IssuedSids \ DOMAIN SESSIONS
    /\ LET record == SESSIONS[sessCall.sid]
       IN /\ record.user_id = Some("u1")
          /\ "theme" \in DOMAIN record
          /\ record.created_at < record.last_seen
          /\ record.last_seen = clock

(* C12: a request that presents the cookie of a session that is known and
   unexpired (now - last_seen <= SESSION_TTL) resolves to that identifier and
   to the record stored under it, so two successive such requests resolve to
   the same identifier and record; the resolution sets last_seen to the
   current time and leaves everything else in the store as it was; and the
   last_seen of a session never decreases. *)
C12_StableResolution ==
    [][/\ \A sid \in DOMAIN SESSIONS :
             (/\ SessStep("resolve")
              /\ sessCall'.arg = Some(sid)
              /\ clock - SESSIONS[sid].last_seen <= SESSION_TTL * TicksPerSec)
             => /\ sessCall'.sid = sid
                /\ SESSIONS' = [SESSIONS EXCEPT ![sid].last_seen = clock]
       /\ \A sid \in DOMAIN SESSIONS \cap DOMAIN SESSIONS' :
             SESSIONS'[sid].last_seen >= SESSIONS[sid].last_seen]_vars

\* a session was presented again exactly SESSION_TTL after its creation and
\* resolved to itself, with last_seen moved to the time of the request
C12_Witness ==
    /\ sessCall.op = "resolve"
    /\ sessCall.arg = Some(sessCall.sid)
    /\ sessCall.sid \in DOMAIN SESSIONS
    /\ SESSIONS[sessCall.sid].last_seen = clock
    /\ SESSIONS[sessCall.sid].created_at = clock - SESSION_TTL * TicksPerSec
    /\ IssuedSids = {sessCall.sid}

(* C13: when session resolution receives a cookie that is absent (or
   empty), unknown to the store, or names an expired record, the request
   gets an identifier generated by the server, never issued before, with a
   new record (created_at = last_seen = now, no user); an expired record is
   removed from the store; and no identifier that the server did not
   generate is ever a key of the store. *)
C13_FreshSession ==
    [][/\ LET presented == IF Truthy(sessCall'.arg) THEN {sessCall'.arg[1]} ELSE {}
              known == presented \cap DOMAIN SESSIONS
              live == {sid \in known : clock - SESSIONS[sid].last_seen
                                          <= SESSION_TTL * TicksPerSec}
              new == sessCall'.sid
          IN (SessStep("resolve") /\ live = {})
             => /\ new \notin IssuedSids
                /\ new \in IssuedSids'
                /\ new \notin presented
                /\ new \in DOMAIN SESSIONS'
                /\ SESSIONS'[new] = [created_at |-> clock, last_seen |-> clock,
                                     user_id |-> None]
                /\ presented \cap DOMAIN SESSIONS' = {}
                /\ \A sid \in DOMAIN SESSIONS \ presented :
                      sid \in DOMAIN SESSIONS' /\ SESSIONS'[sid] = SESSIONS[sid]
       /\ DOMAIN SESSIONS' \subseteq IssuedSids']_vars

\* an expired session was presented: it is gone and the request got a new one
C13_Witness ==
    /\ sessCall.op = "resolve"
    /\ Truthy(sessCall.arg)
    /\ sessCall.arg[1] \in IssuedSids \ DOMAIN SESSIONS
    /\ sessCall.sid # sessCall.arg[1]
    /\ sessCall.sid \in DOMAIN SESSIONS
    /\ SESSIONS[sessCall.sid].created_at = clock

(* C14 as stated: every response the service returns, the 401, 429 and 403
   rejections included, sets the sid cookie to the identifier resolved or
   created for the request, with max-age equal to SESSION_TTL. *)
C14_AsStated ==
    \A r \in Requests :
        LET q == req[r]
        IN Finished(q) =>
              /\ q.resp.sid_cookie # None
              /\ q.resp.sid_cookie = q.sid
              /\ q.resp.sid_max_age = SESSION_TTL

(* C16: under every interleaving of reaper passes with resolutions,
   rotations and handler writes, a pass removes a record only if the record
   is expired (now - last_seen > SESSION_TTL) at the moment of the pass, as
   the store stands then; after the pass no record that was expired at the
   time of the pass is left; and the pass changes nothing else. *)
C16_ReaperRemovesExpiredOnly ==
    [][SessStep("gc") =>
          /\ DOMAIN SESSIONS' \subseteq DOMAIN SESSIONS
          /\ \A sid \in DOMAIN SESSIONS \ DOMAIN SESSIONS' :
                clock - SESSIONS[sid].last_seen > SESSION_TTL * TicksPerSec
          /\ \A sid \in DOMAIN SESSIONS' :
                /\ clock - SESSIONS[sid].last_seen <= SESSION_TTL * TicksPerSec
                /\ SESSIONS'[sid] = SESSIONS[sid]]_vars

\* a pass has removed the second session and kept the first, which is older
\* than SESSION_TTL but was presented again in time
C16_Witness ==
    /\ sessCall.op = "gc"
    /\ issued = 2
    /\ DOMAIN SESSIONS = {GenerateSid(1)}
    /\ clock - SESSIONS[GenerateSid(1)].created_at > SESSION_TTL * TicksPerSec
    /\ clock - SESSIONS[GenerateSid(1)].last_seen <= SESSION_TTL * TicksPerSec

(* C21 as stated: an expired session is never brought back to life. When
   rotate(old) is called while the record at old is expired
   (now - last_seen > SESSION_TTL) and not yet reaped, the record stored
   under the new identifier carries neither the expired record's user_id nor
   its other attributes: it is the record of a new session, so no resolvable
   session holds a user_id read from an expired record. *)
C21_AsStated ==
    [][(/\ SessStep("rotate")
        /\ sessCall'.arg[1] \in DOMAIN SESSIONS
        /\ IsExpired(SESSIONS[sessCall'.arg[1]], clock))
       => /\ SESSIONS'[sessCall'.sid].user_id = None
          /\ DOMAIN SESSIONS'[sessCall'.sid] = {"created_at", "last_seen", "user_id"}]_vars

----------------------------------------------------------------------------
(* Specification SpecGc: the life of the reaper: startup events, the reaper
   task's turns, and the shutdown event.  The shutdown handlers of one
   service run one at a time.  SpecGcFair adds that the event loop gives a
   task that is ready to run its turn. *)

InitGc == InitState /\ RATE_LIMIT_RPS = DefaultRps /\ csrfCall = NoCsrfCall

NextGc ==
    \/ StartGc
    \/ \E t \in 1..MaxTasks : GcBegin(t) \/ GcPass(t) \/ GcCancelled(t)
    \/ StopGcBegin
    \/ StopGcEnd
    \/ Tick

SpecGc == InitGc /\ [][NextGc]_vars

SpecGcFair ==
    SpecGc /\ \A t \in 1..MaxTasks : WF_vars(GcBegin(t) \/ GcCancelled(t))

\* the reaper tasks that exist: created and not done
C17_Running == {t \in DOMAIN gcTasks : ~GcTaskDone(gcTasks[t])}

\* a step in which the shutdown handler completes
C17_ShutdownCompletes == GC_TASK # None /\ GC_TASK' = None

(* C17: at most one reaper task exists at any time (a repeated startup
   event starts no second one); the shutdown event requests the cancellation
   of the reaper, completes only when the reaper has terminated, never lets
   a cancellation error escape, and leaves no reaper running; and a reaper
   whose cancellation was requested terminates. *)
C17_ReaperLifecycle ==
    /\ [](Cardinality(C17_Running) <= 1 /\ stopGc # "failed")
    /\ [][/\ stopGc' = "awaiting" => gcTasks'[GC_TASK'[1]].cancel_requested
          /\ C17_ShutdownCompletes
                => /\ GcTaskDone(gcTasks'[GC_TASK[1]])
                   /\ C17_Running' = {}
                   /\ stopGc' = "idle"]_vars
    /\ \A t \in 1..MaxTasks :
          (t \in DOMAIN gcTasks /\ gcTasks[t].cancel_requested)
              ~> (t \in DOMAIN gcTasks /\ GcTaskDone(gcTasks[t]))

\* the service was shut down and started again: the first reaper was
\* cancelled and has terminated, the shutdown is complete, a second one runs
C17_Witness ==
    /\ Len(gcTasks) = 2
    /\ gcTasks[1].cancel_requested
    /\ GcTaskDone(gcTasks[1])
    /\ stopGc = "idle"
    /\ GC_TASK = Some(2)
    /\ gcTasks[2].st = "sleeping"

====
